---- MODULE Spec2Model ----
(***************************************************************************)
(* Model of nannou's src/wgpu/texture/image.rs: the inter-operation of    *)
(* the `image` crate (images in RAM) and wgpu textures (images in GPU     *)
(* memory).  The conversion tables are operators, the Texture and         *)
(* BufferImage methods are actions over a device (textures and buffers),  *)
(* the caller's command encoder, the device queue, the BufferImages the   *)
(* caller holds and the buffer reads in flight.                           *)
(***************************************************************************)
EXTENDS Naturals, Sequences, FiniteSets

VARIABLES device, encoder, queue, images, reads, last

vars == <<device, encoder, queue, images, reads, last>>

(* Bounds of the model. *)
MaxTextures == 2
MaxLayers == 2
MaxImages == 1
MaxReads == 1

(* Option<T> and Result<T, ()> as tuples. *)
None == <<>>
Some(v) == <<v>>
Ok(v) == <<"Ok", v>>
Err == <<"Err">>

(* image::ColorType (the inhabited variants). *)
ColorType ==
    {"L8", "La8", "Rgb8", "Rgba8", "L16", "La16", "Rgb16", "Rgba16", "Bgr8", "Bgra8"}

(* The wgpu::TextureFormat variants image.rs names. *)
TextureFormat ==
    {"R8Unorm", "R8Snorm", "R8Uint", "R16Unorm", "R16Snorm",
     "Rg8Unorm", "Rg8Snorm", "Rg16Unorm", "Rg16Snorm",
     "Rgba8UnormSrgb", "Rgba8Snorm", "Rgba16Unorm", "Rgba16Snorm",
     "Bgra8UnormSrgb"}

(* image::ColorType::bits_per_pixel. *)
bits_per_pixel(c) ==
    CASE c = "L8" -> 8
      [] c = "La8" -> 16
      [] c = "Rgb8" -> 24
      [] c = "Rgba8" -> 32
      [] c = "L16" -> 16
      [] c = "La16" -> 32
      [] c = "Rgb16" -> 48
      [] c = "Rgba16" -> 64
      [] c = "Bgr8" -> 24
      [] c = "Bgra8" -> 32

RECURSIVE is_power_of_two(_)
is_power_of_two(n) ==
    IF n = 1 THEN TRUE
    ELSE IF n = 0 \/ n % 2 = 1 THEN FALSE
    ELSE is_power_of_two(n \div 2)

(* The image pixel types that implement the Pixel trait. *)
Pixel ==
    {"Bgra<u8>", "Luma<u8>", "Luma<i8>", "Luma<u16>", "Luma<i16>",
     "LumaA<u8>", "LumaA<i8>", "LumaA<u16>", "LumaA<i16>",
     "Rgba<u8>", "Rgba<i8>", "Rgba<u16>", "Rgba<i16>"}

(* Pixel::TEXTURE_FORMAT of each implementation. *)
TEXTURE_FORMAT(P) ==
    CASE P = "Bgra<u8>" -> "Bgra8UnormSrgb"
      [] P = "Luma<u8>" -> "R8Unorm"
      [] P = "Luma<i8>" -> "R8Snorm"
      [] P = "Luma<u16>" -> "R16Unorm"
      [] P = "Luma<i16>" -> "R16Snorm"
      [] P = "LumaA<u8>" -> "Rg8Unorm"
      [] P = "LumaA<i8>" -> "Rg8Snorm"
      [] P = "LumaA<u16>" -> "Rg16Unorm"
      [] P = "LumaA<i16>" -> "Rg16Snorm"
      [] P = "Rgba<u8>" -> "Rgba8UnormSrgb"
      [] P = "Rgba<i8>" -> "Rgba8Snorm"
      [] P = "Rgba<u16>" -> "Rgba16Unorm"
      [] P = "Rgba<i16>" -> "Rgba16Snorm"

(* A table slip: the 24-bit Rgb8 is given the format of Rgba8. *)
format_from_image_color_type_rgb8(color_type) ==
    CASE color_type = "L8" -> Some("R8Unorm")
      [] color_type = "La8" -> Some("Rg8Unorm")
      [] color_type = "Rgb8" -> Some("Rgba8UnormSrgb")
      [] color_type = "Rgba8" -> Some("Rgba8UnormSrgb")
      [] color_type = "L16" -> Some("R16Unorm")
      [] color_type = "La16" -> Some("Rg16Unorm")
      [] color_type = "Rgba16" -> Some("Rgba16Unorm")
      [] color_type = "Bgra8" -> Some("Bgra8UnormSrgb")
      [] OTHER -> None

format_from_image_color_type(color_type) ==
    CASE color_type = "L8" -> Some("R8Unorm")
      [] color_type = "La8" -> Some("Rg8Unorm")
      [] color_type = "Rgba8" -> Some("Rgba8UnormSrgb")
      [] color_type = "L16" -> Some("R16Unorm")
      [] color_type = "La16" -> Some("Rg16Unorm")
      [] color_type = "Rgba16" -> Some("Rgba16Unorm")
      [] color_type = "Bgra8" -> Some("Bgra8UnormSrgb")
      [] OTHER -> None

(* The branch the TODO of the table considers: R8Snorm read as L8. *)
image_color_type_from_format_snorm(format) ==
    CASE format = "R8Unorm" -> Some("L8")
      [] format = "R8Snorm" -> Some("L8")
      [] format = "Rg8Unorm" -> Some("La8")
      [] format = "Rgba8UnormSrgb" -> Some("Rgba8")
      [] format = "R16Unorm" -> Some("L16")
      [] format = "Rg16Unorm" -> Some("La16")
      [] format = "Rgba16Unorm" -> Some("Rgba16")
      [] format = "Bgra8UnormSrgb" -> Some("Bgra8")
      [] OTHER -> None

image_color_type_from_format(format) ==
    CASE format = "R8Unorm" -> Some("L8")
      [] format = "Rg8Unorm" -> Some("La8")
      [] format = "Rgba8UnormSrgb" -> Some("Rgba8")
      [] format = "R16Unorm" -> Some("L16")
      [] format = "Rg16Unorm" -> Some("La16")
      [] format = "Rgba16Unorm" -> Some("Rgba16")
      [] format = "Bgra8UnormSrgb" -> Some("Bgra8")
      [] OTHER -> None

(* The inputs the operations are called with. *)
ImagePixels == {"Rgba<u8>", "Rgba<i8>"}
Sizes == {<<2, 1>>}
Usages == {{"SAMPLED"}}

(* image::ImageBuffer<P, Container>: its pixel type and dimensions stand for its data. *)
ImageBuffer == [pixel : ImagePixels, size : Sizes]

(* The sequences of at most MaxLayers image buffers of one pixel type. *)
ImageBufferSeqs ==
    UNION {UNION {[1..n -> {b \in ImageBuffer : b.pixel = P}] : P \in ImagePixels} : n \in 0..MaxLayers}

(* wgpu::TextureBuilder::from_image_view *)
builder_from_image_view(image) ==
    [size |-> image.size, format |-> TEXTURE_FORMAT(image.pixel),
     array_layer_count |-> 1, usage |-> {}]

(* TextureBuilder::build: a new, empty texture on the device. *)
build(builder, dev) ==
    [dev EXCEPT !.textures = Append(@,
        [format |-> builder.format, size |-> builder.size,
         array_layer_count |-> builder.array_layer_count, usage |-> builder.usage,
         content |-> [l \in 1..builder.array_layer_count |-> <<>>]])]

(* Device::create_buffer_mapped(..).fill_from_slice(data): a new buffer holding data. *)
create_buffer(dev, usage, data) ==
    [dev EXCEPT !.buffers = Append(@, [usage |-> usage, data |-> data])]

(* CommandEncoder::copy_buffer_to_texture into one array layer of the texture. *)
copy_buffer_to_texture(enc, buffer, texture, array_layer) ==
    Append(enc, [op |-> "copy_buffer_to_texture", buffer |-> buffer,
                 texture |-> texture, array_layer |-> array_layer])

(* Texture::to_buffer_bytes: a new buffer and the command copying the whole texture into it. *)
to_buffer_bytes(texture, dev, enc) ==
    LET dev1 == create_buffer(dev, {"COPY_DST", "MAP_READ"}, <<>>)
        buffer == Len(dev1.buffers)
    IN [device |-> dev1,
        encoder |-> Append(enc, [op |-> "copy_texture_to_buffer", buffer |-> buffer,
                                 texture |-> texture, array_layer |-> 0]),
        buffer |-> buffer]

encode_load_texture_from_image_buffer(dev, enc, usage, buffer) ==
    LET dev1 == build([builder_from_image_view(buffer) EXCEPT !.usage = {"COPY_DST"} \cup usage], dev)
        texture == Len(dev1.textures)
        dev2 == create_buffer(dev1, {"COPY_SRC"}, <<(<<buffer>>)>>)
    IN [device |-> dev2,
        encoder |-> copy_buffer_to_texture(enc, Len(dev2.buffers), texture, 0),
        ret |-> texture]

(* The loop of encode_load_texture_array_from_image_buffers, from layer on. *)
RECURSIVE copy_layers(_, _, _, _, _)
copy_layers(dev, enc, texture, buffers, layer) ==
    IF layer >= Len(buffers) THEN [device |-> dev, encoder |-> enc]
    ELSE LET dev1 == create_buffer(dev, {"COPY_SRC"}, <<(<<buffers[layer + 1]>>)>>)
         IN copy_layers(dev1, copy_buffer_to_texture(enc, Len(dev1.buffers), texture, layer),
                        texture, buffers, layer + 1)

(* A reordering slip: the texture is built before the sequence is found empty. *)
encode_load_texture_array_from_image_buffers_eager(dev, enc, usage, buffers) ==
    LET array_layers == Len(buffers)
        first == IF array_layers = 0 THEN [pixel |-> "Rgba<u8>", size |-> <<1, 1>>] ELSE buffers[1]
        dev1 == build([builder_from_image_view(first) EXCEPT
                          !.array_layer_count = IF array_layers = 0 THEN 1 ELSE array_layers,
                          !.usage = {"COPY_DST"} \cup usage], dev)
        texture == Len(dev1.textures)
        done == copy_layers(dev1, enc, texture, buffers, 0)
    IN IF array_layers = 0
       THEN [device |-> dev1, encoder |-> enc, ret |-> None]
       ELSE [device |-> done.device, encoder |-> done.encoder, ret |-> Some(texture)]

encode_load_texture_array_from_image_buffers(dev, enc, usage, buffers) ==
    LET array_layers == Len(buffers)
    IN IF array_layers = 0
       THEN [device |-> dev, encoder |-> enc, ret |-> None]
       ELSE LET first_buffer == buffers[1]
                dev1 == build([builder_from_image_view(first_buffer) EXCEPT
                                  !.array_layer_count = array_layers,
                                  !.usage = {"COPY_DST"} \cup usage], dev)
                texture == Len(dev1.textures)
                done == copy_layers(dev1, enc, texture, buffers, 0)
            IN [device |-> done.device, encoder |-> done.encoder, ret |-> Some(texture)]

(* load_texture_from_image_buffer: an encoder of its own, then queue.submit. *)
load_texture_from_image_buffer(dev, q, usage, buffer) ==
    LET r == encode_load_texture_from_image_buffer(dev, <<>>, usage, buffer)
    IN [device |-> r.device, queue |-> q \o r.encoder, ret |-> r.ret]

load_texture_array_from_image_buffers(dev, q, usage, buffers) ==
    LET r == encode_load_texture_array_from_image_buffers(dev, <<>>, usage, buffers)
    IN [device |-> r.device, queue |-> q \o r.encoder, ret |-> r.ret]

Init ==
    /\ device = [textures |-> <<>>, buffers |-> <<>>]
    /\ encoder = <<>>
    /\ queue = <<>>
    /\ images = <<>>
    /\ reads = <<>>
    /\ last = [op |-> "new"]

(* Room on the device for a texture of the given number of layers. *)
HasRoom(layers) == Len(device.textures) < MaxTextures /\ layers <= MaxLayers

(* The slip of submitting from inside encode_load_from_image_buffer. *)
Texture_encode_load_from_image_buffer_submits(usage, buffer) ==
    /\ HasRoom(1)
    /\ LET r == encode_load_texture_from_image_buffer(device, encoder, usage, buffer)
       IN /\ device' = r.device
          /\ encoder' = <<>>
          /\ queue' = queue \o r.encoder
          /\ last' = [op |-> "encode_load_from_image_buffer", ret |-> r.ret]
    /\ UNCHANGED <<images, reads>>

Texture_encode_load_from_image_buffer(usage, buffer) ==
    /\ HasRoom(1)
    /\ LET r == encode_load_texture_from_image_buffer(device, encoder, usage, buffer)
       IN /\ device' = r.device
          /\ encoder' = r.encoder
          /\ last' = [op |-> "encode_load_from_image_buffer", ret |-> r.ret]
    /\ UNCHANGED <<queue, images, reads>>

Texture_encode_load_array_from_image_buffers(usage, buffers) ==
    /\ HasRoom(Len(buffers))
    /\ LET r == encode_load_texture_array_from_image_buffers(device, encoder, usage, buffers)
       IN /\ device' = r.device
          /\ encoder' = r.encoder
          /\ last' = [op |-> "encode_load_array_from_image_buffers",
                      buffers |-> buffers, ret |-> r.ret]
    /\ UNCHANGED <<queue, images, reads>>

Texture_load_from_image_buffer(usage, buffer) ==
    /\ HasRoom(1)
    /\ LET r == load_texture_from_image_buffer(device, queue, usage, buffer)
       IN /\ device' = r.device
          /\ queue' = r.queue
          /\ last' = [op |-> "load_from_image_buffer", ret |-> r.ret]
    /\ UNCHANGED <<encoder, images, reads>>

Texture_load_array_from_image_buffers(usage, buffers) ==
    /\ HasRoom(Len(buffers))
    /\ LET r == load_texture_array_from_image_buffers(device, queue, usage, buffers)
       IN /\ device' = r.device
          /\ queue' = r.queue
          /\ last' = [op |-> "load_array_from_image_buffers",
                      buffers |-> buffers, ret |-> r.ret]
    /\ UNCHANGED <<encoder, images, reads>>

(* A reordering slip: the buffer and its copy command come before the `?`. *)
Texture_to_image_eager(texture, dev, enc) ==
    LET color_type == image_color_type_from_format(dev.textures[texture].format)
        size == dev.textures[texture].size
        b == to_buffer_bytes(texture, dev, enc)
    IN IF color_type = None
       THEN [device |-> b.device, encoder |-> b.encoder, ret |-> None]
       ELSE [device |-> b.device, encoder |-> b.encoder,
             ret |-> Some([color_type |-> color_type[1], size |-> size, buffer |-> b.buffer])]

Texture_to_image(texture, dev, enc) ==
    LET color_type == image_color_type_from_format(dev.textures[texture].format)
    IN IF color_type = None
       THEN [device |-> dev, encoder |-> enc, ret |-> None]
       ELSE LET size == dev.textures[texture].size
                b == to_buffer_bytes(texture, dev, enc)
            IN [device |-> b.device, encoder |-> b.encoder,
                ret |-> Some([color_type |-> color_type[1], size |-> size, buffer |-> b.buffer])]

(* A call of to_image on one of the device's textures with the caller's encoder. *)
ToImage(texture) ==
    /\ texture \in DOMAIN device.textures
    /\ LET r == Texture_to_image(texture, device, encoder)
       IN /\ r.ret # None => Len(images) < MaxImages
          /\ device' = r.device
          /\ encoder' = r.encoder
          /\ images' = IF r.ret = None THEN images ELSE Append(images, r.ret[1])
          /\ last' = [op |-> "to_image", texture |-> texture, ret |-> r.ret]
    /\ UNCHANGED <<queue, reads>>

(* The slip of unwrapping the result: an error reaches the callback as an empty image. *)
read_closure_or_default(color_type, size, result) ==
    IF result[1] = "Ok"
    THEN Ok([color_type |-> color_type, size |-> size, mapping |-> result[2]])
    ELSE Ok([color_type |-> color_type, size |-> size, mapping |-> <<>>])

(* The closure BufferImage::read hands to the buffer: what it calls the user callback with. *)
read_closure(color_type, size, result) ==
    IF result[1] = "Ok"
    THEN Ok([color_type |-> color_type, size |-> size, mapping |-> result[2]])
    ELSE Err

(* The slip of calling the user callback from inside read. *)
BufferImage_read_sync(image) ==
    /\ image \in DOMAIN images
    /\ Len(reads) < MaxReads
    /\ reads' = Append(reads,
           [image |-> image, color_type |-> images[image].color_type,
            size |-> images[image].size, buffer |-> images[image].buffer,
            result |-> <<>>, delivered |-> FALSE,
            got |-> <<read_closure(images[image].color_type, images[image].size, Err)>>])
    /\ last' = [op |-> "read", image |-> image]
    /\ UNCHANGED <<device, encoder, queue, images>>

(* BufferImage::read: the buffer is asked for a mapping; the closure waits for its result. *)
BufferImage_read(image) ==
    /\ image \in DOMAIN images
    /\ Len(reads) < MaxReads
    /\ reads' = Append(reads,
           [image |-> image, color_type |-> images[image].color_type,
            size |-> images[image].size, buffer |-> images[image].buffer,
            result |-> <<>>, delivered |-> FALSE, got |-> <<>>])
    /\ last' = [op |-> "read", image |-> image]
    /\ UNCHANGED <<device, encoder, queue, images>>

(* The mapping of a read's buffer completes, with the mapped bytes or with an error. *)
MapResolve(r, ok) ==
    /\ r \in DOMAIN reads
    /\ reads[r].result = <<>>
    /\ reads' = [reads EXCEPT ![r].result =
           IF ok THEN Ok([buffer |-> reads[r].buffer, data |-> device.buffers[reads[r].buffer].data])
           ELSE Err]
    /\ last' = [op |-> "map"]
    /\ UNCHANGED <<device, encoder, queue, images>>

(* Device::poll: the closures of the reads whose mapping has completed are called. *)
Poll ==
    /\ \E r \in DOMAIN reads : reads[r].result # <<>> /\ ~reads[r].delivered
    /\ reads' = [r \in DOMAIN reads |->
           IF reads[r].result # <<>> /\ ~reads[r].delivered
           THEN [reads[r] EXCEPT !.delivered = TRUE,
                    !.got = Append(@, read_closure(reads[r].color_type, reads[r].size, reads[r].result))]
           ELSE reads[r]]
    /\ last' = [op |-> "poll"]
    /\ UNCHANGED <<device, encoder, queue, images>>

(* The caller finishes its encoder and submits the command buffer to the queue. *)
Submit ==
    /\ encoder # <<>>
    /\ queue' = queue \o encoder
    /\ encoder' = <<>>
    /\ last' = [op |-> "submit"]
    /\ UNCHANGED <<device, images, reads>>

(* The device executes the oldest submitted command. *)
Execute ==
    /\ queue # <<>>
    /\ LET cmd == Head(queue)
       IN device' =
            IF cmd.op = "copy_buffer_to_texture"
            THEN [device EXCEPT !.textures[cmd.texture].content[cmd.array_layer + 1] =
                                    device.buffers[cmd.buffer].data[1]]
            ELSE [device EXCEPT !.buffers[cmd.buffer].data = device.textures[cmd.texture].content]
    /\ queue' = Tail(queue)
    /\ last' = [op |-> "execute"]
    /\ UNCHANGED <<encoder, images, reads>>

(* Calls of the two conversion functions on the inputs drawn by InitConv. *)
FormatFromImageColorType ==
    /\ last.op = "input"
    /\ last' = [op |-> "format_from_image_color_type", arg |-> last.color_type,
                ret |-> format_from_image_color_type(last.color_type)]
    /\ UNCHANGED <<device, encoder, queue, images, reads>>

ImageColorTypeFromFormat ==
    /\ last.op = "input"
    /\ last' = [op |-> "image_color_type_from_format", arg |-> last.format,
                ret |-> image_color_type_from_format(last.format)]
    /\ UNCHANGED <<device, encoder, queue, images, reads>>

Next ==
    \/ \E usage \in Usages, buffer \in ImageBuffer :
           Texture_encode_load_from_image_buffer(usage, buffer)
    \/ \E usage \in Usages, buffers \in ImageBufferSeqs :
           Texture_encode_load_array_from_image_buffers(usage, buffers)
    \/ \E usage \in Usages, buffer \in ImageBuffer :
           Texture_load_from_image_buffer(usage, buffer)
    \/ \E usage \in Usages, buffers \in ImageBufferSeqs :
           Texture_load_array_from_image_buffers(usage, buffers)
    \/ \E texture \in 1..MaxTextures : ToImage(texture)
    \/ \E image \in 1..MaxImages : BufferImage_read(image)
    \/ \E r \in 1..MaxReads, ok \in BOOLEAN : MapResolve(r, ok)
    \/ Poll
    \/ Submit
    \/ Execute

Spec == Init /\ [][Next]_vars

(* The conversion functions alone, applied to every color type and texture format. *)
InitConv ==
    /\ device = [textures |-> <<>>, buffers |-> <<>>]
    /\ encoder = <<>>
    /\ queue = <<>>
    /\ images = <<>>
    /\ reads = <<>>
    /\ last \in [op : {"input"}, color_type : ColorType, format : TextureFormat]

NextConv ==
    \/ FormatFromImageColorType
    \/ ImageColorTypeFromFormat

SpecConv == InitConv /\ [][NextConv]_vars

(* The loading of textures alone: the encode_* and load_* functions, submission and execution. *)
NextLoad ==
    \/ \E usage \in Usages, buffer \in ImageBuffer :
           Texture_encode_load_from_image_buffer(usage, buffer)
    \/ \E usage \in Usages, buffers \in ImageBufferSeqs :
           Texture_encode_load_array_from_image_buffers(usage, buffers)
    \/ \E usage \in Usages, buffer \in ImageBuffer :
           Texture_load_from_image_buffer(usage, buffer)
    \/ \E usage \in Usages, buffers \in ImageBufferSeqs :
           Texture_load_array_from_image_buffers(usage, buffers)
    \/ Submit
    \/ Execute

SpecLoad == Init /\ [][NextLoad]_vars

(* The reading back of loaded textures: to_image, read, the mapping and the poll. *)
NextRead ==
    \/ \E usage \in Usages, buffer \in ImageBuffer :
           Texture_load_from_image_buffer(usage, buffer)
    \/ \E texture \in 1..MaxTextures : ToImage(texture)
    \/ \E image \in 1..MaxImages : BufferImage_read(image)
    \/ \E r \in 1..MaxReads, ok \in BOOLEAN : MapResolve(r, ok)
    \/ Poll
    \/ Submit
    \/ Execute

SpecRead == Init /\ [][NextRead]_vars

(***************************************************************************)
(* Properties of the conversions, the loading and the reading back.       *)
(***************************************************************************)

(* C1: format_from_image_color_type and image_color_type_from_format are  *)
(* mutual inverses where they return Some: converting the result of either *)
(* one back with the other gives Some of the argument, so no two color     *)
(* types share a format and no two formats share a color type.             *)
C1_MutualInverses ==
    /\ (last.op = "format_from_image_color_type" /\ last.ret # None) =>
            /\ image_color_type_from_format(last.ret[1]) = Some(last.arg)
            /\ \A c \in ColorType : format_from_image_color_type(c) = last.ret => c = last.arg
    /\ (last.op = "image_color_type_from_format" /\ last.ret # None) =>
            /\ format_from_image_color_type(last.ret[1]) = Some(last.arg)
            /\ \A f \in TextureFormat : image_color_type_from_format(f) = last.ret => f = last.arg

C1_Witness ==
    /\ last.op = "image_color_type_from_format"
    /\ last.arg = "Bgra8UnormSrgb"
    /\ last.ret = Some("Bgra8")

(* The seven color types with a texture format, as the claim C2 lists them. *)
C2_Table ==
    {<<"L8", "R8Unorm">>, <<"La8", "Rg8Unorm">>, <<"Rgba8", "Rgba8UnormSrgb">>,
     <<"L16", "R16Unorm">>, <<"La16", "Rg16Unorm">>, <<"Rgba16", "Rgba16Unorm">>,
     <<"Bgra8", "Bgra8UnormSrgb">>}

(* C2: format_from_image_color_type returns Some exactly for L8, La8,     *)
(* Rgba8, L16, La16, Rgba16 and Bgra8, with the formats of C2_Table, and  *)
(* None otherwise; a color type with a format has a power-of-two          *)
(* bits-per-pixel, and Rgb8, Bgr8 and Rgb16, the ones whose bits-per-pixel *)
(* is not a power of two, have none.                                       *)
C2_SevenFormats ==
    last.op = "format_from_image_color_type" =>
        /\ last.ret # None <=> \E p \in C2_Table : p[1] = last.arg
        /\ \A p \in C2_Table : p[1] = last.arg => last.ret = Some(p[2])
        /\ last.ret # None => is_power_of_two(bits_per_pixel(last.arg))
        /\ ~is_power_of_two(bits_per_pixel(last.arg)) =>
               last.ret = None /\ last.arg \in {"Rgb8", "Bgr8", "Rgb16"}
        /\ last.arg \in {"Rgb8", "Bgr8", "Rgb16"} => last.ret = None

C2_Witness ==
    /\ last.op = "format_from_image_color_type"
    /\ last.arg = "Rgb16"
    /\ last.ret = None

(* C3: to_image returns None exactly when image_color_type_from_format    *)
(* has no color type for the texture's format; then the encoder and the   *)
(* device are as before the call; otherwise one new buffer is on the      *)
(* device and the command copying the texture into it is the encoder's    *)
(* newest.                                                                 *)
C3_ToImage ==
    [][last'.op = "to_image" =>
        LET t == last'.texture
        IN /\ last'.ret = None <=>
                  image_color_type_from_format(device.textures[t].format) = None
           /\ last'.ret = None =>
                  device' = device /\ encoder' = encoder /\ queue' = queue
           /\ last'.ret # None =>
                  /\ device'.textures = device.textures
                  /\ Len(device'.buffers) = Len(device.buffers) + 1
                  /\ last'.ret[1].buffer = Len(device'.buffers)
                  /\ encoder' = Append(encoder,
                         [op |-> "copy_texture_to_buffer", buffer |-> Len(device'.buffers),
                          texture |-> t, array_layer |-> 0])]_vars

C3_Witness ==
    /\ last.op = "to_image"
    /\ last.ret = None
    /\ encoder # <<>>
    /\ device.buffers # <<>>

(* C4: encode_load_array_from_image_buffers returns None exactly when the *)
(* sequence of image buffers is empty, and then no texture or buffer has  *)
(* been created and no command added to the encoder.                      *)
C4_EmptyArray ==
    [][last'.op = "encode_load_array_from_image_buffers" =>
        /\ last'.ret = None <=> last'.buffers = <<>>
        /\ last'.ret = None =>
               device' = device /\ encoder' = encoder /\ queue' = queue
        /\ last'.ret # None =>
               /\ Len(device'.textures) = Len(device.textures) + 1
               /\ last'.ret[1] = Len(device'.textures)]_vars

C4_Witness ==
    /\ last.op = "encode_load_array_from_image_buffers"
    /\ last.buffers = <<>>
    /\ last.ret = None
    /\ device.textures # <<>>

(* The textures with a copy command waiting in the caller's encoder. *)
Pending == {encoder[i].texture : i \in {j \in DOMAIN encoder : encoder[j].op = "copy_buffer_to_texture"}}

IsEmpty(texture) == \A l \in DOMAIN texture.content : texture.content[l] = <<>>

(* C5: a texture returned by an encode_* function is empty for as long as *)
(* its copy commands wait in an encoder that has not been submitted, and  *)
(* an encode_* call only appends to the encoder: it leaves the queue as   *)
(* it was.                                                                 *)
C5_EmptyUntilSubmitted ==
    [][/\ \A t \in Pending' : IsEmpty(device'.textures[t])
       /\ last'.op \in {"encode_load_from_image_buffer", "encode_load_array_from_image_buffers"} =>
              /\ queue' = queue
              /\ \A i \in DOMAIN encoder : encoder'[i] = encoder[i]
              /\ last'.op = "encode_load_from_image_buffer" => last'.ret \in Pending'
              /\ (last'.op = "encode_load_array_from_image_buffers" /\ last'.ret # None) =>
                     last'.ret[1] \in Pending']_vars

C5_Witness ==
    /\ Pending # {}
    /\ \E t \in DOMAIN device.textures : ~IsEmpty(device.textures[t])
    /\ \A t \in Pending : IsEmpty(device.textures[t])
    /\ queue = <<>>

(* C6: the user callback of a read is called at most once, and not before *)
(* the mapping of the buffer has completed and a poll of the device has   *)
(* delivered it.                                                           *)
C6_CallbackAfterPoll ==
    \A r \in DOMAIN reads :
        /\ Len(reads[r].got) <= 1
        /\ reads[r].got # <<>> => reads[r].result # <<>> /\ reads[r].delivered

C6_Witness ==
    \E r \in DOMAIN reads : Len(reads[r].got) = 1 /\ reads[r].delivered

(* C7: the user callback receives Err exactly when the mapping of the     *)
(* buffer reported Err, and Ok exactly when it reported Ok, and then the  *)
(* ImageAsyncMapping it receives holds that mapping with the color type   *)
(* and size of the BufferImage.                                            *)
C7_OutcomeUnchanged ==
    \A r \in DOMAIN reads :
        \A k \in DOMAIN reads[r].got :
            LET got == reads[r].got[k]
                result == reads[r].result
            IN /\ result # <<>>
               /\ got[1] = result[1]
               /\ Len(got) = Len(result)
               /\ got[1] = "Ok" =>
                      /\ got[2].mapping = result[2]
                      /\ got[2].color_type = images[reads[r].image].color_type
                      /\ got[2].size = images[reads[r].image].size

C7_Witness ==
    \E r \in DOMAIN reads : reads[r].got = <<Err>> /\ reads[r].result = Err

====
